---- MODULE Spec2Model ----
(***************************************************************************)
(* Model of the retrieval/evaluation service under backend/evaluation:     *)
(*   routers/search.py            the fan-out search handlers              *)
(*   services/query_decomposer.py decompose_query                          *)
(*   routers/retrieval_eval.py    hit rate, MRR, NDCG@k                    *)
(* Ids and scores are small integers standing for the backend's strings    *)
(* and floats; a hit's text and the backend's own metadata fields are      *)
(* carried through unread by every handler and are left out.               *)
(***************************************************************************)
EXTENDS Integers, Sequences, FiniteSets, TLC

\* ---------------------------------------------------------------- bounds
NumIds == 2
MaxScore == 2
MaxTotalHits == 2
MaxTopK == 2
MaxLLMLen == 3
MaxSubQ == 3
MaxIdsLen == 3
MaxK == 3
NumRequests == 2
MaxClock == 2
MaxLimit == 2
MaxContexts == 1
MaxBatch == 2

\* ------------------------------------------------------ program constants
AdvancedCallTopK == 3
AdvancedMaxSubQueries == 3
DefaultK == 5
ContextTop == 5

Ids == 1..NumIds
Scores == 1..MaxScore
TopKs == (0 - 1)..MaxTopK

Min(a, b) == IF a <= b THEN a ELSE b
Max(a, b) == IF a >= b THEN a ELSE b

\* The namespace list both fan-out handlers iterate, in the source's order.
namespaces == <<"fraud-cases", "onboarding-knowledge", "risk-patterns", "investigations">>

\* A JSON scalar as json.loads yields it: a tag and the text of the value.
Str(s) == [t |-> "str", v |-> s]
Num(s) == [t |-> "num", v |-> s]
\* The metadata key sub_query is absent on hits of the broad handler.
NoSubQuery == [t |-> "absent", v |-> ""]
\* The query text of the request.
Query == Str("q")

VARIABLES pc, top_k, sub_queries, sqi, nsi, all_results, seen_ids, response,
          returned, twin_results, twin_seen, first_hit, dropped, fault_hist,
          d_pc, d_max, d_llm, d_result,
          m_pc, retrieved_ids, relevant_ids, req_k, m_response,
          evaluations, e_req, e_pc, e_scores, clock, last_op,
          b_pc, b_items, b_results, b_response

searchVars == <<pc, top_k, sub_queries, sqi, nsi, all_results, seen_ids, response,
                returned, twin_results, twin_seen, first_hit, dropped, fault_hist>>
decompVars == <<d_pc, d_max, d_llm, d_result>>
metricVars == <<m_pc, retrieved_ids, relevant_ids, req_k, m_response>>
storeVars == <<evaluations, e_req, e_pc, e_scores, clock, last_op>>
batchVars == <<b_pc, b_items, b_results, b_response>>
vars == <<searchVars, decompVars, metricVars, storeVars, batchVars>>

\* A slice that keeps one element too many.
SliceInclusive(s, n) ==
    IF n >= 0 THEN SubSeq(s, 1, Min(n + 1, Len(s)))
    ELSE SubSeq(s, 1, Max(Len(s) + n + 1, 0))

\* Python's s[:n]: the first n elements, or all but the last -n when n < 0.
Slice(s, n) ==
    IF n >= 0 THEN SubSeq(s, 1, Min(n, Len(s)))
    ELSE SubSeq(s, 1, Max(Len(s) + n, 0))

\* ------------------------------------------------- services/query_decomposer
\* What the LLM collaborator does on one call, as decompose_query sees it:
\*   no_client  _get_client() returns None (no API key)
\*   raises     messages.create raises, or the response holds no text block
\*   bad_json   json.loads raises on the response text
\*   value      json.loads returns a value: a list of items, or something else
LLMItems == {Str("a"), Str("b"), Num("1")}
LLMLists == UNION {[1..m -> LLMItems] : m \in 0..MaxLLMLen}
LLMOutcomes ==
    {[kind |-> k, isList |-> FALSE, items |-> <<>>] :
        k \in {"no_client", "raises", "bad_json", "value"}}
    \cup {[kind |-> "value", isList |-> TRUE, items |-> s] : s \in LLMLists}

Returned(v) == [raised |-> FALSE, value |-> v]
Raised == [raised |-> TRUE, value |-> <<>>]

\* The try block without the truncation of the parsed list.
decompose_try_unsliced(max_sub_queries, llm) ==
    IF llm.kind \in {"raises", "bad_json"}
    THEN [exit |-> "raise", value |-> <<>>]
    ELSE IF llm.isList /\ Len(llm.items) > 0
    THEN [exit |-> "return", value |-> llm.items]
    ELSE [exit |-> "fall", value |-> <<>>]

\* The try block: it returns a value, raises, or falls through to the end.
decompose_try(max_sub_queries, llm) ==
    IF llm.kind \in {"raises", "bad_json"}
    THEN [exit |-> "raise", value |-> <<>>]
    ELSE IF llm.isList /\ Len(llm.items) > 0
    THEN [exit |-> "return", value |-> Slice(llm.items, max_sub_queries)]
    ELSE [exit |-> "fall", value |-> <<>>]

\* decompose_query without its except clause.
decompose_query_propagating(query, max_sub_queries, llm) ==
    IF llm.kind = "no_client"
    THEN Returned(<<query>>)
    ELSE LET t == decompose_try(max_sub_queries, llm)
         IN  IF t.exit = "return" THEN Returned(t.value)
             ELSE IF t.exit = "raise" THEN Raised
             ELSE Returned(<<query>>)

decompose_query(query, max_sub_queries, llm) ==
    IF llm.kind = "no_client"
    THEN Returned(<<query>>)
    ELSE LET t == decompose_try(max_sub_queries, llm)
         IN  IF t.exit = "return" THEN Returned(t.value)
             ELSE \* except Exception: pass, then the final return
                  Returned(<<query>>)

\* ------------------------------------------------------------- the backend
\* PineconeService.search returns the list of hits of one call, or raises.
BackendHit == [id : Ids, score : Scores]

DistinctIds(s) == \A i, j \in 1..Len(s) : i # j => s[i].id # s[j].id

HitLists(n) ==
    {s \in UNION {[1..m -> BackendHit] : m \in 0..Max(n, 0)} : DistinctIds(s)}

\* The outcomes of one search call asked for at most n hits.
SearchOutcomes(n) ==
    {[fault |-> TRUE, hits |-> <<>>]} \cup {[fault |-> FALSE, hits |-> s] : s \in HitLists(n)}

\* ------------------------------------------------------------ routers/search
\* A hit as the handlers hold it once metadata.namespace and
\* metadata.sub_query are set.
Annotate(h, ns, sq) == [id |-> h.id, score |-> h.score, namespace |-> ns, sub_query |-> sq]

NoHit == [id |-> 0, score |-> 0, namespace |-> "", sub_query |-> NoSubQuery]

\* An insertion that puts a hit before the hits of equal score.
RECURSIVE InsertBeforeTies(_, _)
InsertBeforeTies(h, s) ==
    IF s = <<>> THEN <<h>>
    ELSE IF Head(s).score > h.score THEN <<Head(s)>> \o InsertBeforeTies(h, Tail(s))
    ELSE <<h>> \o s

\* list.sort(key=score, reverse=True): stable, descending.
RECURSIVE InsertByScore(_, _)
InsertByScore(h, s) ==
    IF s = <<>> THEN <<h>>
    ELSE IF Head(s).score >= h.score THEN <<Head(s)>> \o InsertByScore(h, Tail(s))
    ELSE <<h>> \o s

RECURSIVE SortByScore(_)
SortByScore(s) ==
    IF s = <<>> THEN <<>>
    ELSE InsertByScore(s[Len(s)], SortByScore(SubSeq(s, 1, Len(s) - 1)))

\* The response model of a handler that returns, and of one that raised.
SearchResponse(results, ns) == [success |-> TRUE, results |-> results, namespace |-> ns]
ServerError(ns) == [success |-> FALSE, results |-> <<>>, namespace |-> ns]
NoResponse == [success |-> FALSE, results |-> <<>>, namespace |-> ""]

\* search_investigate, the inner loop over the hits of one call.
investigate_collect(results, hits, ns) ==
    results \o [i \in 1..Len(hits) |-> Annotate(hits[i], ns, NoSubQuery)]

\* A dedup that keeps, for each id, the hit with the highest score.
RECURSIVE advanced_collect_keep_best(_, _, _, _, _)
advanced_collect_keep_best(results, seen, hits, ns, sq) ==
    IF hits = <<>> THEN [results |-> results, seen |-> seen]
    ELSE LET h == Head(hits)
             better == [i \in 1..Len(results) |->
                          IF results[i].id = h.id /\ results[i].score < h.score
                          THEN Annotate(h, ns, sq) ELSE results[i]]
         IN  IF h.id \notin seen
             THEN advanced_collect_keep_best(Append(results, Annotate(h, ns, sq)),
                                             seen \cup {h.id}, Tail(hits), ns, sq)
             ELSE advanced_collect_keep_best(better, seen, Tail(hits), ns, sq)

\* search_advanced, the inner loop over the hits of one call.
RECURSIVE advanced_collect(_, _, _, _, _)
advanced_collect(results, seen, hits, ns, sq) ==
    IF hits = <<>> THEN [results |-> results, seen |-> seen]
    ELSE LET h == Head(hits)
         IN  IF h.id \notin seen
             THEN advanced_collect(Append(results, Annotate(h, ns, sq)),
                                   seen \cup {h.id}, Tail(hits), ns, sq)
             ELSE advanced_collect(results, seen, Tail(hits), ns, sq)

\* search_investigate, one iteration of the loop over the namespaces: a fault
\* of the call leaves the handler.
investigate_pair(results, o, ns) ==
    IF o.fault THEN [raised |-> TRUE, results |-> results]
    ELSE [raised |-> FALSE, results |-> investigate_collect(results, o.hits, ns)]

\* The pair's calls without the try block around them.
advanced_pair_unguarded(results, seen, o, ns, sq) ==
    IF o.fault THEN [raised |-> TRUE, results |-> results, seen |-> seen]
    ELSE LET got == advanced_collect(results, seen, o.hits, ns, sq)
         IN  [raised |-> FALSE, results |-> got.results, seen |-> got.seen]

\* search_advanced, the try block of one (sub-query, namespace) pair, with its
\* handler.
advanced_pair(results, seen, o, ns, sq) ==
    IF o.fault
    THEN \* except Exception: continue
         [raised |-> FALSE, results |-> results, seen |-> seen]
    ELSE LET got == advanced_collect(results, seen, o.hits, ns, sq)
         IN  [raised |-> FALSE, results |-> got.results, seen |-> got.seen]

\* History of the backend's answers, kept beside the handler's own state:
\* the first annotated hit returned for each id, whether an id returned
\* before came back with a strictly higher score, the number of hits
\* returned so far, and whether some call and whether every call faulted.
RecordFirst(first, hits, ns, sq) ==
    [id \in Ids |->
        IF first[id] # NoHit THEN first[id]
        ELSE IF \E i \in 1..Len(hits) : hits[i].id = id
        THEN Annotate(hits[CHOOSE i \in 1..Len(hits) : hits[i].id = id], ns, sq)
        ELSE NoHit]

RecordFault(hist, o) == [some |-> hist.some \/ o.fault, all |-> hist.all /\ o.fault]

RecordDropped(first, hits) ==
    \E i \in 1..Len(hits) : first[hits[i].id] # NoHit /\ hits[i].score > first[hits[i].id].score

\* The LLM outcomes the advanced handler is driven with.
AdvancedLLMOutcomes ==
    {o \in LLMOutcomes :
        \/ ~o.isList /\ o.kind \in {"no_client", "raises"}
        \/ o.isList /\ o.items = SubSeq(<<Str("a"), Str("b"), Num("1"), Str("a")>>, 1, Len(o.items))}

SearchInit ==
    /\ pc = "idle"
    /\ top_k = 0
    /\ sub_queries = <<>>
    /\ sqi = 1
    /\ nsi = 1
    /\ all_results = <<>>
    /\ seen_ids = {}
    /\ response = NoResponse
    /\ returned = 0
    /\ twin_results = <<>>
    /\ twin_seen = {}
    /\ first_hit = [id \in Ids |-> NoHit]
    /\ dropped = FALSE
    /\ fault_hist = [some |-> FALSE, all |-> TRUE]

\* POST /search/investigate arrives.
search_investigate_begin ==
    /\ pc = "idle"
    /\ \E k \in TopKs : top_k' = k
    /\ pc' = "investigate"
    /\ sub_queries' = <<Query>>
    /\ UNCHANGED <<sqi, nsi, all_results, seen_ids, response, returned,
                   twin_results, twin_seen, first_hit, dropped, fault_hist>>

\* One iteration of the loop over the namespaces: the call and its hits.
search_investigate_call ==
    /\ pc = "investigate"
    /\ nsi <= Len(namespaces)
    /\ \E o \in SearchOutcomes(Min(top_k, MaxTotalHits - returned)) :
         LET ns == namespaces[nsi]
             got == investigate_pair(all_results, o, ns)
             twinHits == IF o.fault THEN <<>> ELSE o.hits
         IN  /\ IF got.raised
                THEN /\ pc' = "failed"
                     /\ response' = ServerError("all")
                     /\ UNCHANGED <<all_results, nsi>>
                ELSE /\ all_results' = got.results
                     /\ nsi' = nsi + 1
                     /\ UNCHANGED <<pc, response>>
             /\ fault_hist' = RecordFault(fault_hist, o)
             /\ twin_results' = investigate_collect(twin_results, twinHits, ns)
             /\ first_hit' = RecordFirst(first_hit, o.hits, ns, NoSubQuery)
             /\ dropped' = (dropped \/ RecordDropped(first_hit, o.hits))
             /\ returned' = returned + Len(o.hits)
    /\ UNCHANGED <<top_k, sub_queries, sqi, seen_ids, twin_seen>>

\* After the loop: sort, truncate, respond.
search_investigate_finish ==
    /\ pc = "investigate"
    /\ nsi > Len(namespaces)
    /\ all_results' = SortByScore(all_results)
    /\ response' = SearchResponse(Slice(all_results', top_k), "all")
    /\ pc' = "done"
    /\ UNCHANGED <<top_k, sub_queries, sqi, nsi, seen_ids, returned,
                   twin_results, twin_seen, first_hit, dropped, fault_hist>>

\* POST /search/advanced arrives: the query is decomposed.  The handler reads
\* req.top_k only when it truncates, and the model draws it there.
search_advanced_begin ==
    /\ pc = "idle"
    /\ \E llm \in AdvancedLLMOutcomes :
         LET d == decompose_query(Query, AdvancedMaxSubQueries, llm)
         IN  IF d.raised
             THEN /\ pc' = "failed"
                  /\ response' = ServerError("advanced")
                  /\ UNCHANGED sub_queries
             ELSE /\ pc' = "advanced"
                  /\ sub_queries' = d.value
                  /\ UNCHANGED response
    /\ UNCHANGED <<top_k, sqi, nsi, all_results, seen_ids, returned,
                   twin_results, twin_seen, first_hit, dropped, fault_hist>>

\* One iteration of the inner loop: the call of one (sub-query, namespace) pair.
search_advanced_call ==
    /\ pc = "advanced"
    /\ sqi <= Len(sub_queries)
    /\ \E o \in SearchOutcomes(Min(AdvancedCallTopK, MaxTotalHits - returned)) :
         LET ns == namespaces[nsi]
             sq == sub_queries[sqi]
             got == advanced_pair(all_results, seen_ids, o, ns, sq)
             twinHits == IF o.fault THEN <<>> ELSE o.hits
             twin == advanced_collect(twin_results, twin_seen, twinHits, ns, sq)
         IN  /\ all_results' = got.results
             /\ seen_ids' = got.seen
             /\ IF got.raised
                THEN /\ pc' = "failed"
                     /\ response' = ServerError("advanced")
                     /\ UNCHANGED <<sqi, nsi>>
                ELSE /\ UNCHANGED <<pc, response>>
                     /\ IF nsi < Len(namespaces)
                        THEN nsi' = nsi + 1 /\ UNCHANGED sqi
                        ELSE nsi' = 1 /\ sqi' = sqi + 1
             /\ fault_hist' = RecordFault(fault_hist, o)
             /\ twin_results' = twin.results
             /\ twin_seen' = twin.seen
             /\ first_hit' = RecordFirst(first_hit, o.hits, ns, sq)
             /\ dropped' = (dropped \/ RecordDropped(first_hit, o.hits))
             /\ returned' = returned + Len(o.hits)
    /\ UNCHANGED <<top_k, sub_queries>>

search_advanced_finish ==
    /\ pc = "advanced"
    /\ sqi > Len(sub_queries)
    /\ \E k \in TopKs : top_k' = k
    /\ all_results' = SortByScore(all_results)
    /\ response' = SearchResponse(Slice(all_results', top_k'), "advanced")
    /\ pc' = "done"
    /\ UNCHANGED <<sub_queries, sqi, nsi, seen_ids, returned,
                   twin_results, twin_seen, first_hit, dropped, fault_hist>>

\* The call of the current namespace is issued and never returns: the handler
\* stays in svc.search.
search_investigate_hang ==
    /\ pc = "investigate"
    /\ nsi <= Len(namespaces)
    /\ pc' = "blocked"
    /\ UNCHANGED <<top_k, sub_queries, sqi, nsi, all_results, seen_ids, response,
                   returned, twin_results, twin_seen, first_hit, dropped, fault_hist>>

\* The call of the current (sub-query, namespace) pair is issued and never
\* returns.
search_advanced_hang ==
    /\ pc = "advanced"
    /\ sqi <= Len(sub_queries)
    /\ pc' = "blocked"
    /\ UNCHANGED <<top_k, sub_queries, sqi, nsi, all_results, seen_ids, response,
                   returned, twin_results, twin_seen, first_hit, dropped, fault_hist>>

\* ------------------------------------------------------ routers/retrieval_eval
\* A float result as the exact quotient num/den it is the rounding of.
Ratio(n, d) == [num |-> n, den |-> d]
Zero == Ratio(0, 1)

SetOf(s) == {s[i] : i \in 1..Len(s)}

\* 1.0 / math.log2(i + 2) for i = 0, 1, ..., in millionths, rounded down.
InvLog2 == <<1000000, 630929, 500000, 430676, 386852, 356207, 333333, 315464, 301029, 289064>>

RECURSIVE SumInvLog2(_)
SumInvLog2(positions) ==
    IF positions = {} THEN 0
    ELSE LET i == CHOOSE x \in positions : TRUE
         IN  InvLog2[i + 1] + SumInvLog2(positions \ {i})

_compute_hit_rate(retrieved, relevant) ==
    IF relevant = <<>> THEN Zero
    ELSE IF retrieved = <<>> THEN Zero
    ELSE LET retrieved_set == SetOf(retrieved)
             hits == Cardinality({i \in 1..Len(relevant) : relevant[i] \in retrieved_set})
         IN  Ratio(hits, Len(relevant))

_compute_mrr(retrieved, relevant) ==
    IF retrieved = <<>> \/ relevant = <<>> THEN Zero
    ELSE LET relevant_set == SetOf(relevant)
             found == {i \in 0..(Len(retrieved) - 1) : retrieved[i + 1] \in relevant_set}
         IN  IF found = {} THEN Zero
             ELSE Ratio(1, (CHOOSE i \in found : \A j \in found : i <= j) + 1)

_compute_ndcg(retrieved, relevant, k) ==
    IF retrieved = <<>> \/ relevant = <<>> THEN Zero
    ELSE LET relevant_set == SetOf(relevant)
             limit == Min(k, Len(retrieved))
             dcg == SumInvLog2({i \in 0..(limit - 1) : retrieved[i + 1] \in relevant_set})
             ideal_count == Min(k, Len(relevant))
             idcg == SumInvLog2(0..(ideal_count - 1))
         IN  IF idcg = 0 THEN Zero ELSE Ratio(dcg, idcg)

\* The optional field k of the request: absent, or an integer.
NoK == [none |-> TRUE, v |-> 0]
SomeK(n) == [none |-> FALSE, v |-> n]
RequestKs == {NoK} \cup {SomeK(n) : n \in (0 - 1)..MaxK}

IdLists == UNION {[1..m -> Ids] : m \in 0..MaxIdsLen}

\* POST /evaluate/retrieval.
evaluate_retrieval ==
    /\ m_pc = "request"
    /\ LET k == IF req_k.none \/ req_k.v = 0 THEN DefaultK ELSE req_k.v
       IN  m_response' = [hit_rate |-> _compute_hit_rate(retrieved_ids, relevant_ids),
                          mrr |-> _compute_mrr(retrieved_ids, relevant_ids),
                          ndcg_at_k |-> _compute_ndcg(retrieved_ids, relevant_ids, k),
                          k |-> k]
    /\ m_pc' = "done"
    /\ UNCHANGED <<retrieved_ids, relevant_ids, req_k>>

NoMetrics == [hit_rate |-> Zero, mrr |-> Zero, ndcg_at_k |-> Zero, k |-> 0]

MetricsIdle ==
    /\ m_pc = "idle"
    /\ retrieved_ids = <<>>
    /\ relevant_ids = <<>>
    /\ req_k = NoK
    /\ m_response = NoMetrics

MetricsInit ==
    /\ m_pc = "request"
    /\ retrieved_ids \in IdLists
    /\ relevant_ids \in IdLists
    /\ req_k \in RequestKs
    /\ m_response = NoMetrics

\* ------------------------------------------------ services/trulens_evaluator
\* Scores are in ten-thousandths: 10000 stands for 1.0.  An evaluation_id is
\* the number of the request that drew it, a timestamp the clock's reading;
\* 0 stands for the empty string of either.  A record's query, response,
\* contexts and ground truth are read by no operation of the store and are
\* left out.
UseCases == {"fraud", "onboarding"}
NoUseCase == ""
Requests == 1..NumRequests

\* What one feedback-provider call does: it raises, or returns a score.
Fault == [fault |-> TRUE, score |-> 0]
Ok(v) == [fault |-> FALSE, score |-> v]
FeedbackOutcomes == {Fault, Ok(10000)}

\* What the provider does during one evaluate_rag: _get_provider may raise;
\* otherwise one outcome per call, with one call per retrieved context.
ContextOutcomes == UNION {[1..m -> FeedbackOutcomes] : m \in 0..MaxContexts}
Feedback(pf, r, c, g, h) ==
    [provider_fault |-> pf, relevance |-> r, contexts |-> c, grounded |-> g, coherence |-> h]
NoProvider == Feedback(TRUE, Fault, <<>>, Fault, Fault)
Feedbacks ==
    {NoProvider} \cup
    {Feedback(FALSE, r, c, g, h) :
        r \in FeedbackOutcomes, c \in ContextOutcomes,
        g \in FeedbackOutcomes, h \in FeedbackOutcomes}

ScoreEntry(metric, score, details) == [metric |-> metric, score |-> score, details |-> details]

RECURSIVE SumSeq(_)
SumSeq(s) == IF s = <<>> THEN 0 ELSE Head(s) + SumSeq(Tail(s))

\* A try block that appends nothing when its call raises.
score_block_skipping(metric, o) ==
    IF o.fault THEN <<>> ELSE <<ScoreEntry(metric, o.score, "")>>

\* One try/except block of evaluate_rag around a single provider call: what
\* it appends to scores.
score_block(metric, o) ==
    IF o.fault THEN <<ScoreEntry(metric, 0, "error")>>
    ELSE <<ScoreEntry(metric, o.score, "")>>

\* The block of the context relevance: one call per context of the first
\* five, and the average of their scores.
context_block(contexts) ==
    LET called == Slice(contexts, ContextTop)
        ctx_scores == [i \in 1..Len(called) |-> called[i].score]
        avg_ctx == IF ctx_scores # <<>> THEN SumSeq(ctx_scores) \div Len(ctx_scores) ELSE 0
    IN  IF \E i \in 1..Len(called) : called[i].fault
        THEN <<ScoreEntry("context_relevance", 0, "error")>>
        ELSE <<ScoreEntry("context_relevance", avg_ctx, "")>>

\* evaluate_rag up to its result: the scores list after the four blocks.
evaluate_rag_scores(fb) ==
    score_block("answer_relevance", fb.relevance)
    \o context_block(fb.contexts)
    \o score_block("groundedness", fb.grounded)
    \o score_block("coherence", fb.coherence)

\* The result dict of evaluate_rag.
EvaluationRecord(id, scores, use_case, ts) ==
    [evaluation_id |-> id, scores |-> scores, use_case |-> use_case,
     agent_id |-> "agent", timestamp |-> ts]

\* A store keyed by timestamp: a record replaces the last one of its tick.
store_append_keyed(log, rec) ==
    IF log # <<>> /\ log[Len(log)].timestamp = rec.timestamp
    THEN SubSeq(log, 1, Len(log) - 1) \o <<rec>>
    ELSE Append(log, rec)

\* _evaluations.append(result)
store_append(log, rec) == Append(log, rec)

\* sorted(key=timestamp, reverse=True): stable, descending.
RECURSIVE InsertByTimestamp(_, _)
InsertByTimestamp(e, s) ==
    IF s = <<>> THEN <<e>>
    ELSE IF Head(s).timestamp >= e.timestamp THEN <<Head(s)>> \o InsertByTimestamp(e, Tail(s))
    ELSE <<e>> \o s

RECURSIVE SortByTimestamp(_)
SortByTimestamp(s) ==
    IF s = <<>> THEN <<>>
    ELSE InsertByTimestamp(s[Len(s)], SortByTimestamp(SubSeq(s, 1, Len(s) - 1)))

RECURSIVE FilterUseCase(_, _)
FilterUseCase(s, uc) ==
    IF s = <<>> THEN <<>>
    ELSE IF Head(s).use_case = uc THEN <<Head(s)>> \o FilterUseCase(Tail(s), uc)
    ELSE FilterUseCase(Tail(s), uc)

\* get_evaluations that sorts the unfiltered list in place.
get_evaluations_in_place(log, limit, use_case) ==
    LET evals == IF use_case # NoUseCase THEN FilterUseCase(log, use_case) ELSE log
    IN  [result |-> Slice(SortByTimestamp(evals), limit),
         store |-> IF use_case # NoUseCase THEN log ELSE SortByTimestamp(log)]

\* get_evaluations: what it returns, and the store it leaves.
get_evaluations(log, limit, use_case) ==
    LET evals == IF use_case # NoUseCase THEN FilterUseCase(log, use_case) ELSE log
    IN  [result |-> Slice(SortByTimestamp(evals), limit), store |-> log]

\* The scores of one metric in one record's scores list.
RECURSIVE EntryScores(_, _)
EntryScores(own, metric) ==
    IF own = <<>> THEN <<>>
    ELSE (IF Head(own).metric = metric THEN <<Head(own).score>> ELSE <<>>)
         \o EntryScores(Tail(own), metric)

\* The list get_aggregate_metrics collects for one metric, in log order.
RECURSIVE MetricScores(_, _)
MetricScores(s, metric) ==
    IF s = <<>> THEN <<>>
    ELSE EntryScores(Head(s).scores, metric) \o MetricScores(Tail(s), metric)

\* round(x, 4) of the mean of n scores that sum to total: to the nearest
\* ten-thousandth, a tie going to the even one.
Round4(total, n) ==
    LET q == total \div n
        r == total % n
    IN  IF 2 * r < n THEN q
        ELSE IF 2 * r > n THEN q + 1
        ELSE IF q % 2 = 0 THEN q ELSE q + 1

\* round(avg(lst), 4)
avg(lst) == IF lst # <<>> THEN Round4(SumSeq(lst), Len(lst)) ELSE 0

UseCasesOf(log) == {log[i].use_case : i \in 1..Len(log)}

\* A count that takes every collected score of the use case.
use_case_count_of_scores(own) ==
    Len(MetricScores(own, "answer_relevance")) + Len(MetricScores(own, "context_relevance"))
    + Len(MetricScores(own, "groundedness")) + Len(MetricScores(own, "coherence"))

\* "count": len(scores["answer_relevance"]), over the records of a use case
use_case_count(own) == Len(MetricScores(own, "answer_relevance"))

Means(own) ==
    [answer_relevance |-> avg(MetricScores(own, "answer_relevance")),
     context_precision |-> avg(MetricScores(own, "context_relevance")),
     groundedness |-> avg(MetricScores(own, "groundedness")),
     faithfulness |-> avg(MetricScores(own, "coherence"))]

get_aggregate_metrics(log) ==
    IF log = <<>>
    THEN [answer_relevance |-> 0, context_precision |-> 0, groundedness |-> 0,
          faithfulness |-> 0, total_evaluations |-> 0, by_use_case |-> <<>>]
    ELSE LET all == Means(log)
         IN  [answer_relevance |-> all.answer_relevance,
              context_precision |-> all.context_precision,
              groundedness |-> all.groundedness,
              faithfulness |-> all.faithfulness,
              total_evaluations |-> Len(log),
              by_use_case |->
                  [uc \in UseCasesOf(log) |->
                      LET own == FilterUseCase(log, uc)
                          mean == Means(own)
                      IN  [answer_relevance |-> mean.answer_relevance,
                           context_precision |-> mean.context_precision,
                           groundedness |-> mean.groundedness,
                           faithfulness |-> mean.faithfulness,
                           count |-> use_case_count(own)]]]

\* ------------------------------------------- the evaluation store's requests
\* The provider behaviours drawn where several requests run together.
AllOk == Feedback(FALSE, Ok(10000), <<>>, Ok(10000), Ok(10000))
RelevanceFaults == Feedback(FALSE, Fault, <<>>, Ok(10000), Ok(10000))
SampleFeedbacks == {NoProvider, AllOk, RelevanceFaults}

EvaluateInput(uc, fb) == [use_case |-> uc, fb |-> fb]
NoInput == EvaluateInput(NoUseCase, NoProvider)

StoreIdle ==
    /\ evaluations = <<>>
    /\ e_req = [p \in Requests |-> NoInput]
    /\ e_pc = [p \in Requests |-> "absent"]
    /\ e_scores = [p \in Requests |-> <<>>]
    /\ clock = 1
    /\ last_op = "none"

\* NumRequests evaluation requests arrive together.
StoreInit ==
    /\ evaluations = <<>>
    /\ e_req \in [Requests -> {EvaluateInput(uc, fb) : uc \in UseCases, fb \in SampleFeedbacks}]
    /\ e_pc = [p \in Requests |-> "new"]
    /\ e_scores = [p \in Requests |-> <<>>]
    /\ clock = 1
    /\ last_op = "none"

\* One evaluation request, under every behaviour of the provider.
EvalInit ==
    /\ evaluations = <<>>
    /\ e_req \in {[p \in Requests |-> IF p = 1 THEN EvaluateInput(uc, fb) ELSE NoInput] :
                    uc \in UseCases, fb \in Feedbacks}
    /\ e_pc = [p \in Requests |-> IF p = 1 THEN "new" ELSE "absent"]
    /\ e_scores = [p \in Requests |-> <<>>]
    /\ clock = 1
    /\ last_op = "none"

\* evaluate_rag, lines 34-71: the provider is built and the four blocks run.
evaluate_rag_score(p) ==
    /\ e_pc[p] = "new"
    /\ IF e_req[p].fb.provider_fault
       THEN /\ e_pc' = [e_pc EXCEPT ![p] = "failed"]
            /\ UNCHANGED e_scores
       ELSE /\ e_pc' = [e_pc EXCEPT ![p] = "scored"]
            /\ e_scores' = [e_scores EXCEPT ![p] = evaluate_rag_scores(e_req[p].fb)]
    /\ UNCHANGED <<evaluations, e_req, clock, last_op>>

\* evaluate_rag, lines 73-86: the result is built, stamped and appended.
evaluate_rag_append(p) ==
    /\ e_pc[p] = "scored"
    /\ evaluations' = store_append(evaluations,
                          EvaluationRecord(p, e_scores[p], e_req[p].use_case, clock))
    /\ e_pc' = [e_pc EXCEPT ![p] = "done"]
    /\ last_op' = "append"
    /\ UNCHANGED <<e_req, e_scores, clock>>

\* The clock that datetime.now reads moves on.
tick ==
    /\ clock < MaxClock
    /\ clock' = clock + 1
    /\ UNCHANGED <<evaluations, e_req, e_pc, e_scores, last_op>>

\* ---------------------------------------------------------- routers/dashboard
Limits == 1..MaxLimit

get_metrics ==
    /\ last_op' = "read"
    /\ UNCHANGED <<evaluations, e_req, e_pc, e_scores, clock>>

get_metrics_history ==
    \E limit \in Limits :
        /\ evaluations' = get_evaluations(evaluations, limit, NoUseCase).store
        /\ last_op' = "read"
        /\ UNCHANGED <<e_req, e_pc, e_scores, clock>>

get_leaderboard ==
    /\ last_op' = "read"
    /\ UNCHANGED <<evaluations, e_req, e_pc, e_scores, clock>>

list_evaluations ==
    \E limit \in Limits, use_case \in UseCases \cup {NoUseCase} :
        /\ evaluations' = get_evaluations(evaluations, limit, use_case).store
        /\ last_op' = "read"
        /\ UNCHANGED <<e_req, e_pc, e_scores, clock>>

\* ----------------------------------------------------------- routers/evaluate
\* What evaluate_with_ragas does: it raises, or returns its metric scores.
RagasFault == [fault |-> TRUE, scores |-> <<>>]
RagasOk ==
    [fault |-> FALSE,
     scores |-> <<[metric |-> "faithfulness", value |-> 10000],
                  [metric |-> "answer_relevancy", value |-> 10000],
                  [metric |-> "context_precision", value |-> 10000]>>]
RagasOutcomes == {RagasFault, RagasOk}

\* f"ragas_{metric}"
RagasName ==
    [faithfulness |-> "ragas_faithfulness",
     answer_relevancy |-> "ragas_answer_relevancy",
     context_precision |-> "ragas_context_precision"]

EvaluateResponse(success, id, scores, use_case, ts) ==
    [success |-> success, evaluation_id |-> id, scores |-> scores,
     use_case |-> use_case, timestamp |-> ts]
NoEvaluateResponse == EvaluateResponse(FALSE, 0, <<>>, NoUseCase, 0)

\* evaluate_single on the request ev, with the id and the clock reading that
\* evaluate_rag draws: whether it raises, its response, the store it leaves.
evaluate_single(ev, id, ts, log) ==
    IF ev.fb.provider_fault
    THEN [raised |-> TRUE, response |-> NoEvaluateResponse, store |-> log]
    ELSE LET trulens_result == EvaluationRecord(id, evaluate_rag_scores(ev.fb), ev.use_case, ts)
             ragas_scores == IF ev.ragas.fault THEN <<>> ELSE ev.ragas.scores
             scores == trulens_result.scores \o
                       [i \in 1..Len(ragas_scores) |->
                           ScoreEntry(RagasName[ragas_scores[i].metric], ragas_scores[i].value, "")]
         IN  [raised |-> FALSE,
              response |-> EvaluateResponse(TRUE, trulens_result.evaluation_id, scores,
                                            ev.use_case, trulens_result.timestamp),
              store |-> store_append(log, trulens_result)]

\* A loop body without the try: the item's fault leaves the handler.
batch_item_unguarded(ev, id, ts, log) ==
    LET r == evaluate_single(ev, id, ts, log)
    IN  [raised |-> r.raised, result |-> r.response, store |-> r.store]

\* The body of evaluate_batch's loop for the item ev.
batch_item(ev, id, ts, log) ==
    LET r == evaluate_single(ev, id, ts, log)
    IN  IF r.raised
        THEN [raised |-> FALSE,
              result |-> EvaluateResponse(FALSE, 0, <<>>, ev.use_case, 0),
              store |-> r.store]
        ELSE [raised |-> FALSE, result |-> r.response, store |-> r.store]

BatchItem(uc, fb, ragas) == [use_case |-> uc, fb |-> fb, ragas |-> ragas]
BatchItems ==
    {BatchItem(uc, fb, ragas) : uc \in UseCases, fb \in SampleFeedbacks, ragas \in RagasOutcomes}
Batches == UNION {[1..n -> BatchItems] : n \in 0..MaxBatch}

BatchEvaluateResponse(success, results) ==
    [success |-> success, count |-> Len(results), results |-> results]
NoBatchResponse == [success |-> FALSE, count |-> 0, results |-> <<>>]

BatchIdle ==
    /\ b_pc = "idle"
    /\ b_items = <<>>
    /\ b_results = <<>>
    /\ b_response = NoBatchResponse

BatchInit ==
    /\ b_pc = "running"
    /\ b_items \in Batches
    /\ b_results = <<>>
    /\ b_response = NoBatchResponse

\* One round of the loop of evaluate_batch.
evaluate_batch_item ==
    /\ b_pc = "running"
    /\ Len(b_results) < Len(b_items)
    /\ LET i == Len(b_results) + 1
           r == batch_item(b_items[i], NumRequests + i, clock, evaluations)
       IN  /\ evaluations' = r.store
           /\ last_op' = IF r.store # evaluations THEN "append" ELSE last_op
           /\ IF r.raised
              THEN b_pc' = "failed" /\ UNCHANGED b_results
              ELSE b_results' = Append(b_results, r.result) /\ UNCHANGED b_pc
    /\ UNCHANGED <<b_items, b_response, e_req, e_pc, e_scores, clock>>

\* The return of evaluate_batch.
evaluate_batch_finish ==
    /\ b_pc = "running"
    /\ Len(b_results) = Len(b_items)
    /\ b_response' = BatchEvaluateResponse(TRUE, b_results)
    /\ b_pc' = "done"
    /\ UNCHANGED <<b_items, b_results, storeVars>>

\* ------------------------------------------------------------ specifications
NoLLM == [kind |-> "no_client", isList |-> FALSE, items |-> <<>>]

DecompIdle ==
    /\ d_pc = "idle"
    /\ d_max = 0
    /\ d_llm = NoLLM
    /\ d_result = Returned(<<>>)

DecompInit ==
    /\ d_pc = "call"
    /\ d_max \in 1..MaxSubQ
    /\ d_llm \in LLMOutcomes
    /\ d_result = Returned(<<>>)

\* A call decompose_query(query, max_sub_queries).
decompose_call ==
    /\ d_pc = "call"
    /\ d_result' = decompose_query(Query, d_max, d_llm)
    /\ d_pc' = "returned"
    /\ UNCHANGED <<d_max, d_llm>>

\* The search handlers.
Init == SearchInit /\ DecompIdle /\ MetricsIdle /\ StoreIdle /\ BatchIdle

Next ==
    \/ search_investigate_begin /\ UNCHANGED <<decompVars, metricVars, storeVars, batchVars>>
    \/ search_investigate_call /\ UNCHANGED <<decompVars, metricVars, storeVars, batchVars>>
    \/ search_investigate_finish /\ UNCHANGED <<decompVars, metricVars, storeVars, batchVars>>
    \/ search_advanced_begin /\ UNCHANGED <<decompVars, metricVars, storeVars, batchVars>>
    \/ search_advanced_call /\ UNCHANGED <<decompVars, metricVars, storeVars, batchVars>>
    \/ search_advanced_finish /\ UNCHANGED <<decompVars, metricVars, storeVars, batchVars>>

Spec == Init /\ [][Next]_vars

\* The search handlers with a backend whose calls may never return.
NextSlow ==
    \/ Next
    \/ search_investigate_hang /\ UNCHANGED <<decompVars, metricVars, storeVars, batchVars>>
    \/ search_advanced_hang /\ UNCHANGED <<decompVars, metricVars, storeVars, batchVars>>

SpecSlow == Init /\ [][NextSlow]_vars

\* The query decomposer on its own.
InitDecompose == SearchInit /\ DecompInit /\ MetricsIdle /\ StoreIdle /\ BatchIdle

NextDecompose == decompose_call /\ UNCHANGED <<searchVars, metricVars, storeVars, batchVars>>

SpecDecompose == InitDecompose /\ [][NextDecompose]_vars

\* The retrieval metrics endpoint.
InitMetrics == SearchInit /\ DecompIdle /\ MetricsInit /\ StoreIdle /\ BatchIdle

NextMetrics == evaluate_retrieval /\ UNCHANGED <<searchVars, decompVars, storeVars, batchVars>>

SpecMetrics == InitMetrics /\ [][NextMetrics]_vars

\* The evaluation store: concurrent evaluation requests, the dashboard's
\* reads, and a retrieval evaluation.
MetricsOne ==
    /\ m_pc = "request"
    /\ retrieved_ids = <<1>>
    /\ relevant_ids = <<1>>
    /\ req_k = NoK
    /\ m_response = NoMetrics

InitStore == SearchInit /\ DecompIdle /\ MetricsOne /\ StoreInit /\ BatchIdle

NextStore ==
    \/ \E p \in Requests : evaluate_rag_score(p) /\ UNCHANGED <<searchVars, decompVars, metricVars, batchVars>>
    \/ \E p \in Requests : evaluate_rag_append(p) /\ UNCHANGED <<searchVars, decompVars, metricVars, batchVars>>
    \/ tick /\ UNCHANGED <<searchVars, decompVars, metricVars, batchVars>>
    \/ get_metrics /\ UNCHANGED <<searchVars, decompVars, metricVars, batchVars>>
    \/ get_metrics_history /\ UNCHANGED <<searchVars, decompVars, metricVars, batchVars>>
    \/ get_leaderboard /\ UNCHANGED <<searchVars, decompVars, metricVars, batchVars>>
    \/ list_evaluations /\ UNCHANGED <<searchVars, decompVars, metricVars, batchVars>>
    \/ evaluate_retrieval /\ UNCHANGED <<searchVars, decompVars, storeVars, batchVars>>

SpecStore == InitStore /\ [][NextStore]_vars

\* One evaluation request under every behaviour of the provider.
InitEval == SearchInit /\ DecompIdle /\ MetricsOne /\ EvalInit /\ BatchIdle

SpecEval == InitEval /\ [][NextStore]_vars

\* The batch endpoint.
InitBatch == SearchInit /\ DecompIdle /\ MetricsIdle /\ StoreIdle /\ BatchInit

NextBatch ==
    \/ evaluate_batch_item /\ UNCHANGED <<searchVars, decompVars, metricVars>>
    \/ evaluate_batch_finish /\ UNCHANGED <<searchVars, decompVars, metricVars>>
    \/ tick /\ UNCHANGED <<searchVars, decompVars, metricVars, batchVars>>

SpecBatch == InitBatch /\ [][NextBatch]_vars

\* ------------------------------------------------------------------- claims
AdvancedDone == pc = "done" /\ response.namespace = "advanced"
InAdvanced == pc = "advanced" \/ AdvancedDone

Positions(s, id) == {i \in 1..Len(s) : s[i].id = id}
Count(s, h) == Cardinality({i \in 1..Len(s) : s[i] = h})

\* C1: in search_advanced the collected list holds, for every id some call has
\* returned, exactly one hit with that id, and it is the hit of the first
\* (sub-query, namespace) pair that returned the id, with that pair's score,
\* namespace and sub_query; an id no call returned is not in the list.
C1_FirstSeenWins ==
    InAdvanced =>
        \A id \in Ids :
            IF first_hit[id] = NoHit
            THEN Positions(all_results, id) = {}
            ELSE /\ Cardinality(Positions(all_results, id)) = 1
                 /\ \A i \in Positions(all_results, id) : all_results[i] = first_hit[id]

\* An advanced request has finished in which a later pair returned an id
\* again with a strictly higher score.
C1_Witness == AdvancedDone /\ dropped /\ Len(all_results) > 0

\* C2: no result list of either fan-out handler holds two hits with one id.
C2_NoDuplicateIds ==
    pc = "done" =>
        \A i, j \in 1..Len(response.results) :
            i # j => response.results[i].id # response.results[j].id

\* C3: for top_k >= 1 the result of either fan-out handler has at most top_k
\* elements, adjacent elements have non-increasing scores, every element is a
\* collected hit, and no collected hit left out scores strictly higher than
\* an element of the result.
C3_TopKSorted ==
    (pc = "done" /\ top_k >= 1) =>
        LET r == response.results
        IN  /\ Len(r) <= top_k
            /\ \A i \in 1..(Len(r) - 1) : r[i].score >= r[i + 1].score
            /\ \A i \in 1..Len(r) : Count(r, r[i]) <= Count(twin_results, r[i])
            /\ \A i \in 1..Len(twin_results) :
                   LET h == twin_results[i]
                   IN  Count(twin_results, h) > Count(r, h) =>
                           \A j \in 1..Len(r) : h.score <= r[j].score

\* A request has finished whose result was truncated to top_k, leaving out a
\* hit that scores strictly lower than the last one kept.
C3_Witness ==
    /\ pc = "done"
    /\ top_k >= 1
    /\ Len(response.results) = top_k
    /\ Len(twin_results) > top_k
    /\ \E i \in 1..Len(twin_results) :
           twin_results[i].score < response.results[top_k].score

\* C4: search_advanced never fails on a fault of the backend's search call,
\* and its result is the result of the request in which every faulting pair
\* returned no hit; it is empty when every pair faulted.
C4_FaultsAreZeroHits ==
    /\ response.namespace = "advanced" => pc # "failed"
    /\ AdvancedDone =>
           /\ response.success
           /\ response.results = Slice(SortByScore(twin_results), top_k)
           /\ fault_hist.all => response.results = <<>>

\* An advanced request in which some pair's call faulted has finished with a
\* non-empty result.
C4_Witness ==
    /\ AdvancedDone
    /\ fault_hist.some
    /\ response.results # <<>>

\* C5: a fault of the backend's search call never aborts search_investigate.
C5_InvestigateSurvivesFault ==
    response.namespace = "all" => (pc # "failed" /\ response.success)

DecomposeReturned == d_pc = "returned"

LLMFailed ==
    \/ d_llm.kind \in {"no_client", "raises", "bad_json"}
    \/ ~d_llm.isList
    \/ d_llm.items = <<>>

\* C6: decompose_query returns [query], and raises nothing, when there is no
\* client, the call raises, the text does not parse, or the parsed value is
\* not a list or is the empty list.
C6_FallbackToQuery ==
    (DecomposeReturned /\ LLMFailed) => d_result = Returned(<<Query>>)

\* The decomposer has returned after a response text that does not parse.
C6_Witness == DecomposeReturned /\ d_llm.kind = "bad_json" /\ d_result.value = <<Query>>

\* C7: for max_sub_queries >= 1 the list decompose_query returns has between
\* 1 and max_sub_queries elements, and for a non-empty list from the LLM it is
\* that list's prefix of length min(length, max_sub_queries).
C7_LengthAndPrefix ==
    DecomposeReturned =>
        /\ ~d_result.raised
        /\ Len(d_result.value) >= 1
        /\ Len(d_result.value) <= d_max
        /\ ~LLMFailed =>
               d_result.value = SubSeq(d_llm.items, 1, Min(Len(d_llm.items), d_max))

\* The decomposer has returned a list it had to cut to max_sub_queries.
C7_Witness ==
    /\ DecomposeReturned
    /\ ~LLMFailed
    /\ Len(d_llm.items) > d_max
    /\ Len(d_result.value) = d_max

\* C8: a parsed list that holds an element that is not a string is malformed
\* output, answered with [query]; every element decompose_query returns is a
\* string.
C8_OnlyStrings ==
    DecomposeReturned =>
        /\ \A i \in 1..Len(d_result.value) : d_result.value[i].t = "str"
        /\ (~LLMFailed /\ \E i \in 1..Len(d_llm.items) : d_llm.items[i].t # "str") =>
               d_result.value = <<Query>>

MetricsDone == m_pc = "done"
InUnit(r) == 0 <= r.num /\ r.num <= r.den /\ r.den > 0

\* C9: hit rate is the number of distinct relevant ids found in retrieved_ids
\* over the number of distinct relevant ids, and 0.0 when either input is
\* empty.
C9_HitRateOverDistinct ==
    MetricsDone =>
        IF retrieved_ids = <<>> \/ relevant_ids = <<>>
        THEN m_response.hit_rate.num = 0
        ELSE m_response.hit_rate.num * Cardinality(SetOf(relevant_ids))
                 = Cardinality(SetOf(relevant_ids) \cap SetOf(retrieved_ids))
                     * m_response.hit_rate.den

\* C10: for non-empty retrieved_ids and relevant_ids, hit_rate, mrr and
\* ndcg_at_k each lie in [0,1].
C10_MetricsInUnit ==
    (MetricsDone /\ retrieved_ids # <<>> /\ relevant_ids # <<>>) =>
        /\ InUnit(m_response.hit_rate)
        /\ InUnit(m_response.mrr)
        /\ InUnit(m_response.ndcg_at_k)

\* C11: for a request with k = 0, evaluate_retrieval computes NDCG at cutoff
\* 0, so ndcg_at_k is 0.0, and returns k = 0.
C11_ZeroKHonoured ==
    (MetricsDone /\ ~req_k.none /\ req_k.v = 0) =>
        (m_response.k = 0 /\ m_response.ndcg_at_k.num = 0)

\* C16: a fan-out request whose top_k is zero or negative never yields a
\* success response.
C16_NonPositiveTopKRejected ==
    (pc = "done" /\ top_k <= 0) => ~response.success

PositionIn(s, h) == CHOOSE i \in 1..Len(s) : s[i] = h

\* C18: in the result of either fan-out handler, two hits of equal score stand
\* in the order in which they were collected (sub-queries outer, namespaces
\* inner, the backend's order within one call).
C18_TiesInCollectionOrder ==
    pc = "done" =>
        LET r == response.results
        IN  \A i, j \in 1..Len(r) :
                (i < j /\ r[i].score = r[j].score) =>
                    PositionIn(twin_results, r[i]) < PositionIn(twin_results, r[j])

\* A fan-out request has finished with two hits of equal score in its result.
C18_Witness ==
    /\ pc = "done"
    /\ Len(response.results) >= 2
    /\ response.results[1].score = response.results[2].score

\* C17: when the call of one pair never returns, no other pair's call is left
\* waiting for it: every other pair's call has been issued.
C17_NoCallWaitsForSlow ==
    pc = "blocked" => (sqi = Len(sub_queries) /\ nsi = Len(namespaces))

\* ------------------------------------------------------- the evaluation store
IsPrefix(s, t) == Len(s) <= Len(t) /\ SubSeq(t, 1, Len(s)) = s

\* C12: right after a record r is appended, get_evaluations with limit 1 and
\* no filter returns exactly <<r>>, whatever the timestamps of the records
\* already in the log.
C12_JustAppendedListedFirst ==
    last_op = "append" =>
        get_evaluations(evaluations, 1, NoUseCase).result = <<evaluations[Len(evaluations)]>>

\* C13: the log is append-only: every step leaves the old log as a prefix of
\* the new one, and a step that changes the log is the append of one
\* evaluation request and adds exactly one record at the end.
C13_AppendOnly ==
    [][/\ IsPrefix(evaluations, evaluations')
       /\ evaluations' # evaluations =>
              /\ Len(evaluations') = Len(evaluations) + 1
              /\ \E p \in Requests : e_pc[p] = "scored" /\ e_pc'[p] = "done"]_vars

\* Two records in rising timestamp order have been read by the dashboard and
\* a retrieval evaluation has run.
C13_Witness ==
    /\ Len(evaluations) >= 2
    /\ evaluations[1].timestamp < evaluations[2].timestamp
    /\ last_op = "read"
    /\ m_pc = "done"

RecordFields == {"evaluation_id", "scores", "use_case", "agent_id", "timestamp"}
Complete(r) ==
    /\ DOMAIN r = RecordFields
    /\ r.evaluation_id \in Requests
    /\ r.use_case \in UseCases
    /\ r.timestamp \in 1..clock
    /\ Len(r.scores) = 4

\* C14: under every interleaving of the evaluation requests with each other
\* and with reads, the log holds exactly one record per request whose
\* evaluation has returned, so N records once N requests have returned, and
\* every record a read returns has all of its fields.
C14_OneRecordPerRequest ==
    /\ Len(evaluations) = Cardinality({p \in Requests : e_pc[p] = "done"})
    /\ \A p \in Requests :
           e_pc[p] = "done" =>
               Cardinality({i \in 1..Len(evaluations) : evaluations[i].evaluation_id = p}) = 1
    /\ \A limit \in Limits, use_case \in UseCases \cup {NoUseCase} :
           LET got == get_evaluations(evaluations, limit, use_case).result
           IN  \A i \in 1..Len(got) : Complete(got[i])

\* Every request has returned, two of them within one tick of the clock, and
\* the log has been read.
C14_Witness ==
    /\ \A p \in Requests : e_pc[p] = "done"
    /\ evaluations[1].timestamp = evaluations[2].timestamp
    /\ last_op = "read"

RECURSIVE SumCounts(_, _)
SumCounts(f, ucs) ==
    IF ucs = {} THEN 0
    ELSE LET uc == CHOOSE u \in ucs : TRUE
         IN  f[uc].count + SumCounts(f, ucs \ {uc})

\* C19: the aggregate's total_evaluations is the number of records,
\* by_use_case has one entry per use_case of the log, each count is the number
\* of records of that use_case, the counts sum to the total, and on the empty
\* store the four means are 0 and by_use_case is empty.
C19_AggregateCounts ==
    LET a == get_aggregate_metrics(evaluations)
    IN  /\ a.total_evaluations = Len(evaluations)
        /\ DOMAIN a.by_use_case = UseCasesOf(evaluations)
        /\ \A uc \in DOMAIN a.by_use_case :
               a.by_use_case[uc].count =
                   Cardinality({i \in 1..Len(evaluations) : evaluations[i].use_case = uc})
        /\ SumCounts(a.by_use_case, DOMAIN a.by_use_case) = a.total_evaluations
        /\ evaluations = <<>> =>
               /\ a.answer_relevance = 0 /\ a.context_precision = 0
               /\ a.groundedness = 0 /\ a.faithfulness = 0
               /\ DOMAIN a.by_use_case = {}

\* The log holds records of two use cases, one of them of a request whose
\* answer relevance call faulted.
C19_Witness ==
    /\ Len(evaluations) >= 2
    /\ evaluations[1].use_case # evaluations[2].use_case
    /\ evaluations[1].scores[1].details = "error"

ScoreOrder == <<"answer_relevance", "context_relevance", "groundedness", "coherence">>
Faulted(entry) == entry.score = 0 /\ entry.details = "error"

\* C20: every appended record carries exactly four scores, in the order
\* answer_relevance, context_relevance, groundedness, coherence, whichever of
\* the provider calls fault; a block whose call faults contributes score 0
\* with the fault's text as details; and the request's record is appended all
\* the same.
C20_FourScoresInOrder ==
    /\ \A i \in 1..Len(evaluations) :
           LET r == evaluations[i]
               fb == e_req[r.evaluation_id].fb
           IN  /\ Len(r.scores) = 4
               /\ \A j \in 1..4 : r.scores[j].metric = ScoreOrder[j]
               /\ fb.relevance.fault => Faulted(r.scores[1])
               /\ (\E c \in 1..Len(fb.contexts) : c <= ContextTop /\ fb.contexts[c].fault)
                      => Faulted(r.scores[2])
               /\ fb.grounded.fault => Faulted(r.scores[3])
               /\ fb.coherence.fault => Faulted(r.scores[4])
    /\ \A p \in Requests :
           e_pc[p] = "done" => \E i \in 1..Len(evaluations) : evaluations[i].evaluation_id = p

\* A request all of whose provider calls faulted has its record in the log.
C20_Witness ==
    /\ Len(evaluations) = 1
    /\ e_req[1].fb.contexts # <<>>
    /\ \A j \in 1..4 : Faulted(evaluations[1].scores[j])

\* C15: a batch of n items ends with n results in input order and count n;
\* an item whose evaluation faults yields the marker (success false, empty
\* evaluation_id, empty scores), and every other item's result is the one
\* its evaluation yields on its own.
C15_BatchKeepsEveryItem ==
    /\ b_pc # "failed"
    /\ b_pc = "done" =>
           LET n == Len(b_items)
           IN  /\ b_response.success
               /\ b_response.count = n
               /\ Len(b_response.results) = n
               /\ \A i \in 1..n :
                      LET ev == b_items[i]
                          res == b_response.results[i]
                      IN  IF ev.fb.provider_fault
                          THEN res = EvaluateResponse(FALSE, 0, <<>>, ev.use_case, 0)
                          ELSE /\ res.success
                               /\ res.timestamp \in 1..clock
                               /\ res = evaluate_single(ev, NumRequests + i,
                                                        res.timestamp, <<>>).response

\* A batch whose first item faulted and whose second did not has returned.
C15_Witness ==
    /\ b_pc = "done"
    /\ Len(b_items) = 2
    /\ b_items[1].fb.provider_fault
    /\ ~b_items[2].fb.provider_fault

====
